---- MODULE Spec2Model ----
(***************************************************************************)
(* The OTP entry / verification widget (OTPComponent) of the MyFarm        *)
(* storefront, src/src/app/signin/page.tsx lines 356-723.                  *)
(*                                                                         *)
(* The state is the component's React state (useState cells), the          *)
(* referenceId prop owned by the parent, the slot that holds the focus,    *)
(* the verifyOTP / sendOTPInSignup calls in flight and the pending         *)
(* setTimeout callbacks.  A state of the model is a committed render: an   *)
(* event handler runs to its first await (or to its end) in one step, the  *)
(* code after an await runs in one step when the call has settled, and the *)
(* timer effect runs in the step of the tick that triggers it.             *)
(*                                                                         *)
(* Three further components are modelled the same way, each as one record  *)
(* of its useState cells and calls in flight, with its own specification:  *)
(* the package carousel (src/src/components/home/PackageSlider.tsx,        *)
(* variable slider), the sign-in page (page.tsx lines 1-355, variable      *)
(* signin) and the personal-details form (page.tsx lines 724-1313,         *)
(* variable profile).                                                      *)
(***************************************************************************)
EXTENDS Integers, Sequences, FiniteSets, TLC

VARIABLES
    otp,            \* useState(['', '', '', '', '']): slot index -> "" or a character
    timer,          \* useState(60): seconds left of the countdown
    disabledResend, \* useState(true)
    isVerified,     \* useState(false)
    isModalOpen,    \* useState(false)
    isError,        \* useState(false)
    modalMessage,   \* useState('')
    isOtpExpired,   \* useState(false)
    isVerifying,    \* useState(false)
    isResending,    \* useState(false)
    referenceId,    \* prop: the session reference, held by the parent
    focus,          \* {i} when input i was focused last, {} before any input was
    verifyCalls,    \* verifyOTP calls in flight, oldest first
    sendCalls,      \* sendOTPInSignup calls in flight, oldest first
    timeouts,       \* pending setTimeout(..., 2000) callbacks of the success path
    successCalls,   \* number of onVerificationSuccess() invocations so far
    slider,         \* PackageSlider: its useState cells and calls in flight
    signin,         \* sign-in Page: its useState cells, the browser's
                    \* localStorage, the auth store and calls in flight
    profile         \* PersonalDetailsForm: its useState cells, the auth token,
                    \* the password fields of the form and calls in flight

\* the state of OTPComponent
otpVars == <<otp, timer, disabledResend, isVerified, isModalOpen, isError,
             modalMessage, isOtpExpired, isVerifying, isResending, referenceId,
             focus, verifyCalls, sendCalls, timeouts, successCalls>>

\* the state of the components that are mounted apart from OTPComponent
otherComponents == <<slider, signin, profile>>

vars == <<otpVars, otherComponents>>

-----------------------------------------------------------------------------
(* Bounds of the model *)

\* The countdown's start value.  The source starts at 60 (useState(60),
\* setTimer(60)); every value in 1..59 takes the same branches, so the model
\* counts down from a smaller start.
TimerStart == 2

\* Most success timeouts scheduled plus success callbacks made in one run.
MaxSuccess == 1

\* The same, in the runs of RepeatSpec that submit the code again.
MaxRepeat == 2

-----------------------------------------------------------------------------
(* Values *)

OTP_LENGTH == 5

Slots == 0 .. (OTP_LENGTH - 1)

DecimalDigits == {"0", "1", "2", "3", "4", "5", "6", "7", "8", "9"}

\* what \d matches
IsDigit(c) == c \in DecimalDigits

\* The digits the user types or pastes in the model.
TypedDigits == {"7"}

\* Values an <input maxLength={1}> reports to onChange: empty, a digit, or
\* another single character.
TypedValues == {"", "x"} \cup TypedDigits

\* Clipboard texts, as sequences of characters.
ClipboardTexts ==
    { <<>>,
      <<"x", "-">>,
      <<"7">>,
      <<"7", "x", "7", " ", "7">>,
      <<"7", "7", "7", "7", "7">>,
      <<"7", "7", "-", "7", "7", "7", "7">> }

\* Session references the server can hand out.
Refs == {"r1", "r2"}

\* referenceId values the parent can mount the widget with.
InitialRefs == {"", "r1"}

MsgEnterAll     == "Please enter all 5 digits."
MsgExpired      == "OTP has expired. Please request a new one."
MsgVerified     == "OTP Verified Successfully!"
MsgInvalid      == "Invalid OTP. Please try again."
MsgWrong        == "Something went wrong. Please try again."
MsgVerifyFailed == "Failed to verify OTP. Try again later."
MsgResent       == "New OTP has been sent to your mobile number."
MsgNoReference  == "Failed to get reference ID for new OTP"
MsgResendFailed == "Failed to resend OTP"

\* statusCode values of a verifyOTP response
StatusCodes == {"1000", "1001", "1002", "1003", "5000"}

\* message of an Error a service call rejects with ("" : no message)
ErrorMessages == {"", "Network Error", "OTP Expired"}

Resolved(v) == [kind |-> "resolved", val |-> v]
Rejected(m) == [kind |-> "rejected", val |-> m]

EmptyOtp == [i \in Slots |-> ""]

\* PackageSlider after its first render.  A number | null and an any | null
\* cell hold {} for null and {v} for a value; a string | null cell holds "" for
\* null (the code never stores an empty message).
SliderInitial ==
    [ selectedPackageId |-> {},     \* useState<number | null>(null)
      packageDetails    |-> {},     \* useState<any>(null): {p} is the
                                    \* packageItems fetched for package p
      isLoadingDetails  |-> FALSE,  \* useState(false)
      errorDetails      |-> "",     \* useState<string | null>(null)
      showSuccess       |-> FALSE,  \* useState(false)
      successMessage    |-> "",     \* useState('')
      showError         |-> FALSE,  \* useState(false)
      errorMessage      |-> "",     \* useState('')
      detailCalls       |-> <<>> ]  \* getPackageDetails calls in flight

\* the two localStorage keys of the sign-in page: {} for a key that is not
\* set, {v} for a key that holds v
NoCredentials == [rememberedEmail |-> {}, rememberedPassword |-> {}]

\* The sign-in Page after its first render and its mount effect, which loads
\* the saved credentials when both keys hold a non-empty value.
SigninMounted(stored) ==
    LET saved == /\ stored.rememberedEmail \notin {{}, {<<>>}}
                 /\ stored.rememberedPassword \notin {{}, {<<>>}}
    IN  [ userType         |-> "Retail",  \* useState('Retail')
          email            |-> IF saved   \* useState(''), setEmail(savedEmail)
                               THEN CHOOSE e \in stored.rememberedEmail : TRUE
                               ELSE <<>>,
          password         |-> IF saved   \* useState(''), setPassword(...)
                               THEN CHOOSE w \in stored.rememberedPassword : TRUE
                               ELSE <<>>,
          rememberMe       |-> saved,     \* useState(false), setRememberMe(true)
          isLoading        |-> FALSE,     \* useState(false)
          showSuccessPopup |-> FALSE,     \* useState(false)
          showErrorPopup   |-> FALSE,     \* useState(false)
          emailError       |-> "",        \* useState('')
          passwordError    |-> "",        \* useState('')
          localStorage     |-> stored,    \* the browser's key-value store
          credentials      |-> {},        \* tokens dispatched by setCredentials
          route            |-> {},        \* paths handed to router.push
          loginCalls       |-> <<>> ]     \* login calls in flight

\* the three password fields of the form as react-hook-form hands them to
\* onSubmit: "" for undefined or an empty field
NoPasswords == [currentPassword |-> "", newPassword |-> "", confirmPassword |-> ""]

\* a call of the personal-details form: the service called, the function that
\* awaits it, and what that function holds across the await
ProfileCall(op, origin, data, messages) ==
    [op |-> op, origin |-> origin, data |-> data, successMessages |-> messages]

\* PersonalDetailsForm after its first render and its mount effect:
\* loadProfile returns at once without a token, and otherwise sets isLoading
\* and calls fetchProfile.
ProfileMounted(token) ==
    [ token                  |-> token,   \* useSelector(state.auth.token)
      profilePic             |-> {},      \* useState<File | null>(null)
      previewURL             |-> {},      \* useState<string | null>(null)
      showSuccessPopup       |-> FALSE,   \* useState(false)
      showErrorPopup         |-> FALSE,   \* useState(false)
      showCancelSuccessPopup |-> FALSE,   \* useState(false)
      errorMessage           |-> "",      \* useState('')
      successMessage         |-> <<>>,    \* useState(''): the messages that
                                          \* join(' ') puts together
      isLoading              |-> token # "",  \* useState(false), loadProfile
      passwords              |-> NoPasswords, \* the form's password fields
      cancelTimeouts         |-> 0,       \* pending setTimeout(..., 500)
      calls                  |-> IF token # ""
                                 THEN <<ProfileCall("fetchProfile", "loadProfile",
                                                    NoPasswords, <<>>)>>
                                 ELSE <<>> ]

-----------------------------------------------------------------------------
\* OTPComponent after its first render
OtpMounted ==
    /\ otp = EmptyOtp
    /\ timer = TimerStart
    /\ disabledResend = TRUE
    /\ isVerified = FALSE
    /\ isModalOpen = FALSE
    /\ isError = FALSE
    /\ modalMessage = ""
    /\ isOtpExpired = FALSE
    /\ isVerifying = FALSE
    /\ isResending = FALSE
    /\ referenceId \in InitialRefs
    /\ focus = {}
    /\ verifyCalls = <<>>
    /\ sendCalls = <<>>
    /\ timeouts = 0
    /\ successCalls = 0

Init ==
    /\ OtpMounted
    /\ slider = SliderInitial
    /\ signin = SigninMounted(NoCredentials)
    /\ profile = ProfileMounted("")

-----------------------------------------------------------------------------
(* The code buffer: handleChange, handleKeyDown, handlePaste *)

LAST_SLOT == 4

Min(a, b) == IF a < b THEN a ELSE b

\* /^\d?$/.test(value), for the values an input of maxLength 1 can report
MatchesOptionalDigit(value) == value = "" \/ IsDigit(value)

\* ChangeOtp without the test of value
ChangeOtp_NoTest(o, value, idx) == [o EXCEPT ![idx] = value]

\* newOtp after handleChange(value, idx)
ChangeOtp(o, value, idx) ==
    IF ~MatchesOptionalDigit(value) THEN o ELSE [o EXCEPT ![idx] = value]

\* the loop "for (let i = idx; i < newOtp.length; i++) if (newOtp[i] !== '')
\* lastFilledIndex = i", started from -1
LastFilledIndex(o, idx) ==
    LET filled == {i \in Slots : i >= idx /\ o[i] # ""}
    IN  IF filled = {} THEN -1
        ELSE CHOOSE i \in filled : \A j \in filled : j <= i

\* ShiftLeft without "newOtp[last] = ''"
ShiftLeft_KeepsLast(o, idx, last) ==
    [i \in Slots |-> IF i >= idx /\ i < last THEN o[i + 1] ELSE o[i]]

\* "for (let i = idx; i < last; i++) newOtp[i] = newOtp[i + 1]; newOtp[last] = ''"
ShiftLeft(o, idx, last) ==
    [i \in Slots |->
        IF i >= idx /\ i < last THEN o[i + 1]
        ELSE IF i = last THEN ""
        ELSE o[i]]

\* newOtp after the Backspace branch of handleKeyDown
BackspaceOtp(o, idx) ==
    IF o[idx] # "" THEN [o EXCEPT ![idx] = ""]
    ELSE LET last == LastFilledIndex(o, idx)
         IN  IF last > idx THEN ShiftLeft(o, idx, last)
             ELSE IF idx > 0 THEN [o EXCEPT ![idx - 1] = ""]
             ELSE o

\* BackspaceFocus without "inputsRef.current[idx - 1]?.focus()"
BackspaceFocus_Stays(o, idx) == idx

\* the input focused after Backspace on slot idx
BackspaceFocus(o, idx) ==
    IF o[idx] = "" /\ ~(LastFilledIndex(o, idx) > idx) /\ idx > 0
    THEN idx - 1 ELSE idx

\* DeleteOtp that clears the field without shifting the rest
DeleteOtp_ClearsOnly(o, idx) == [o EXCEPT ![idx] = ""]

\* newOtp after the Delete branch of handleKeyDown
DeleteOtp(o, idx) ==
    IF o[idx] # ""
    THEN LET last == LastFilledIndex(o, idx)
         IN  IF last >= idx THEN ShiftLeft(o, idx, last) ELSE o
    ELSE o

\* pastedData.replace(/\D/g, '').slice(0, 5)
PastedDigits(text) ==
    LET kept == SelectSeq(text, IsDigit)
    IN  SubSeq(kept, 1, Min(Len(kept), OTP_LENGTH))

\* PasteOtp without the loop that clears the remaining fields
PasteOtp_NoClear(o, text) ==
    LET digits == PastedDigits(text)
    IN  IF Len(digits) > 0
        THEN [i \in Slots |-> IF i < Len(digits) THEN digits[i + 1] ELSE o[i]]
        ELSE o

\* newOtp after handlePaste
PasteOtp(o, text) ==
    LET digits == PastedDigits(text)
    IN  IF Len(digits) > 0
        THEN [i \in Slots |-> IF i < Len(digits) THEN digits[i + 1] ELSE ""]
        ELSE o

\* the inputs are rendered with disabled={isOtpExpired}
InputsEnabled == ~isOtpExpired

protoVars == <<timer, disabledResend, isVerified, isModalOpen, isError,
               modalMessage, isOtpExpired, isVerifying, isResending,
               referenceId, verifyCalls, sendCalls, timeouts, successCalls,
               otherComponents>>

\* ChangeFocus without the test idx < 4
ChangeFocus_PastLast(value, idx) ==
    IF MatchesOptionalDigit(value) /\ value # "" THEN idx + 1 ELSE idx

\* the input focused after handleChange(value, idx):
\* "if (value && idx < 4) inputsRef.current[idx + 1]?.focus()"
ChangeFocus(value, idx) ==
    IF MatchesOptionalDigit(value) /\ value # "" /\ idx < LAST_SLOT
    THEN idx + 1 ELSE idx

handleChange(value, idx) ==
    /\ InputsEnabled
    /\ otp' = ChangeOtp(otp, value, idx)
    /\ focus' = {ChangeFocus(value, idx)}
    /\ UNCHANGED protoVars

handleBackspace(idx) ==
    /\ InputsEnabled
    /\ otp' = BackspaceOtp(otp, idx)
    /\ focus' = {BackspaceFocus(otp, idx)}
    /\ UNCHANGED protoVars

handleDelete(idx) ==
    /\ InputsEnabled
    /\ otp' = DeleteOtp(otp, idx)
    /\ focus' = {idx}
    /\ UNCHANGED protoVars

handlePaste(text, idx) ==
    /\ InputsEnabled
    /\ otp' = PasteOtp(otp, text)
    /\ focus' = IF Len(PastedDigits(text)) > 0
                THEN {Min(Len(PastedDigits(text)), LAST_SLOT)} ELSE {idx}
    /\ UNCHANGED protoVars

-----------------------------------------------------------------------------
(* The countdown: the timer effect *)

\* onOTPExpired() of the parent: "Clear the referenceId in parent component"
onOTPExpired == ""

\* onResendOTP(newReferenceId) of the parent
onResendOTP(newReferenceId) == newReferenceId

\* Tick with the interval installed whatever the value of timer
Tick_NoGuard ==
    /\ timer' = timer - 1
    /\ IF timer' > 0
       THEN UNCHANGED <<disabledResend, isOtpExpired, referenceId>>
       ELSE /\ disabledResend' = FALSE
            /\ isOtpExpired' = TRUE
            /\ referenceId' = onOTPExpired
    /\ UNCHANGED otherComponents
    /\ UNCHANGED <<otp, focus, isVerified, isModalOpen, isError, modalMessage,
                   isVerifying, isResending, verifyCalls, sendCalls, timeouts,
                   successCalls>>

\* Tick with setIsOtpExpired(true) left out of the effect
Tick_NoExpiry ==
    /\ timer > 0
    /\ timer' = timer - 1
    /\ IF timer' > 0
       THEN UNCHANGED <<disabledResend, referenceId>>
       ELSE /\ disabledResend' = FALSE
            /\ referenceId' = onOTPExpired
    /\ UNCHANGED otherComponents
    /\ UNCHANGED <<otp, focus, isVerified, isModalOpen, isError, modalMessage,
                   isOtpExpired, isVerifying, isResending, verifyCalls,
                   sendCalls, timeouts, successCalls>>

\* One tick of the interval the effect installs while timer > 0, followed by
\* the effect's run for the new value of timer.
Tick ==
    /\ timer > 0
    /\ timer' = timer - 1
    /\ IF timer' > 0
       THEN UNCHANGED <<disabledResend, isOtpExpired, referenceId>>
       ELSE /\ disabledResend' = FALSE
            /\ isOtpExpired' = TRUE
            /\ referenceId' = onOTPExpired
    /\ UNCHANGED otherComponents
    /\ UNCHANGED <<otp, focus, isVerified, isModalOpen, isError, modalMessage,
                   isVerifying, isResending, verifyCalls, sendCalls, timeouts,
                   successCalls>>

-----------------------------------------------------------------------------
(* Verification: handleVerify *)

\* otp.join(''), as a sequence of characters
Code(o) ==
    LET RECURSIVE join(_)
        join(i) == IF i = OTP_LENGTH THEN <<>>
                   ELSE (IF o[i] = "" THEN <<>> ELSE <<o[i]>>) \o join(i + 1)
    IN  join(0)

\* otp.every(digit => digit !== '')
isOtpComplete == \A i \in Slots : otp[i] # ""

\* the Verify button is rendered with
\* disabled={isVerifying || isOtpExpired || !isOtpComplete}
VerifyButtonEnabled == ~(isVerifying \/ isOtpExpired \/ ~isOtpComplete)

ShowModal(error, message) ==
    /\ isError' = error
    /\ modalMessage' = message
    /\ isModalOpen' = TRUE

\* a local rejection: setIsError(true); setModalMessage(...);
\* setIsModalOpen(true); return
RejectVerify(message) ==
    /\ ShowModal(TRUE, message)
    /\ UNCHANGED otherComponents
    /\ UNCHANGED <<otp, timer, disabledResend, isVerified, isOtpExpired,
                   isVerifying, isResending, referenceId, focus, verifyCalls,
                   sendCalls, timeouts, successCalls>>

\* IssueVerify with setIsVerifying(true) left out
IssueVerify_NoBusyFlag ==
    /\ verifyCalls' = Append(verifyCalls,
                             [code |-> Code(otp), ref |-> referenceId])
    /\ UNCHANGED otherComponents
    /\ UNCHANGED <<otp, timer, disabledResend, isVerified, isModalOpen,
                   isError, modalMessage, isOtpExpired, isVerifying,
                   isResending, referenceId, focus, sendCalls, timeouts,
                   successCalls>>

\* setIsVerifying(true), then the call verifyOTP(code, referenceId)
IssueVerify ==
    /\ isVerifying' = TRUE
    /\ verifyCalls' = Append(verifyCalls,
                             [code |-> Code(otp), ref |-> referenceId])
    /\ UNCHANGED otherComponents
    /\ UNCHANGED <<otp, timer, disabledResend, isVerified, isModalOpen,
                   isError, modalMessage, isOtpExpired, isResending,
                   referenceId, focus, sendCalls, timeouts, successCalls>>

\* SessionUnusable without the test of referenceId
SessionUnusable_IgnoresReference == isOtpExpired

\* "if (isOtpExpired || !referenceId)"
SessionUnusable == isOtpExpired \/ referenceId = ""

\* handleVerify up to "await verifyOTP(code, referenceId)"
handleVerify ==
    IF isVerifying THEN UNCHANGED vars
    ELSE IF Len(Code(otp)) # OTP_LENGTH THEN RejectVerify(MsgEnterAll)
    ELSE IF SessionUnusable THEN RejectVerify(MsgExpired)
    ELSE IssueVerify

\* a click on the Verify button
ClickVerify ==
    /\ VerifyButtonEnabled
    /\ handleVerify

\* The characters of the error messages (strings are atoms here).
Chars(m) ==
    CASE m = "" -> <<>>
      [] m = "Network Error" ->
            <<"N", "e", "t", "w", "o", "r", "k", " ", "E", "r", "r", "o", "r">>
      [] m = "OTP Expired" ->
            <<"O", "T", "P", " ", "E", "x", "p", "i", "r", "e", "d">>
      [] m = "otp expired" ->
            <<"o", "t", "p", " ", "e", "x", "p", "i", "r", "e", "d">>

\* String.prototype.toLowerCase, on the letters the messages use
LowerChar(c) ==
    CASE c = "N" -> "n" [] c = "E" -> "e" [] c = "O" -> "o"
      [] c = "T" -> "t" [] c = "P" -> "p" [] OTHER -> c

toLowerCase(cs) == [i \in 1 .. Len(cs) |-> LowerChar(cs[i])]

\* String.prototype.includes
includes(cs, needle) ==
    \E k \in 0 .. (Len(cs) - Len(needle)) :
        \A j \in 1 .. Len(needle) : cs[k + j] = needle[j]

\* IsExpiredError without toLowerCase()
IsExpiredError_CaseSensitive(m) ==
    /\ m # ""
    /\ includes(Chars(m), <<"e", "x", "p", "i", "r", "e", "d">>)

\* error.message && error.message.toLowerCase().includes('expired')
IsExpiredError(m) ==
    /\ m # ""
    /\ includes(toLowerCase(Chars(m)), <<"e", "x", "p", "i", "r", "e", "d">>)

\* message of an Error verifyOTP rejects with
VerifyErrorMessages == ErrorMessages \cup {"otp expired"}

\* how a verifyOTP call can settle: a response with a status code, or an Error
VerifyReplies ==
    {Resolved(c) : c \in StatusCodes} \cup
    {Rejected(m) : m \in VerifyErrorMessages}

RemoveAt(seq, i) == SubSeq(seq, 1, i - 1) \o SubSeq(seq, i + 1, Len(seq))

\* Outcome that discards a response once the expired state is set
Outcome_DropsStale(reply) ==
    IF isOtpExpired THEN "failed"
    ELSE IF reply.kind = "resolved"
    THEN IF reply.val = "1000" THEN "success"
         ELSE IF reply.val = "1001" THEN "invalid"
         ELSE IF reply.val = "1002" \/ reply.val = "1003" THEN "expired"
         ELSE "unknown"
    ELSE IF IsExpiredError(reply.val) THEN "expired" ELSE "failed"

\* Outcome with '1003' missing from the expired branch
Outcome_1003Unknown(reply) ==
    IF reply.kind = "resolved"
    THEN IF reply.val = "1000" THEN "success"
         ELSE IF reply.val = "1001" THEN "invalid"
         ELSE IF reply.val = "1002" THEN "expired"
         ELSE "unknown"
    ELSE IF IsExpiredError(reply.val) THEN "expired" ELSE "failed"

\* the outcome handleVerify selects for a settled call
Outcome(reply) ==
    IF reply.kind = "resolved"
    THEN IF reply.val = "1000" THEN "success"
         ELSE IF reply.val = "1001" THEN "invalid"
         ELSE IF reply.val = "1002" \/ reply.val = "1003" THEN "expired"
         ELSE "unknown"
    ELSE IF IsExpiredError(reply.val) THEN "expired" ELSE "failed"

\* OutcomeMessage with the messages of '1001' and of the else branch swapped
OutcomeMessage_Swapped(reply) ==
    IF reply.kind = "resolved"
    THEN IF reply.val = "1000" THEN MsgVerified
         ELSE IF reply.val = "1001" THEN MsgWrong
         ELSE IF reply.val = "1002" \/ reply.val = "1003" THEN MsgExpired
         ELSE MsgInvalid
    ELSE IF IsExpiredError(reply.val) THEN MsgExpired ELSE MsgVerifyFailed

\* the message handleVerify shows for a settled call
OutcomeMessage(reply) ==
    IF reply.kind = "resolved"
    THEN IF reply.val = "1000" THEN MsgVerified
         ELSE IF reply.val = "1001" THEN MsgInvalid
         ELSE IF reply.val = "1002" \/ reply.val = "1003" THEN MsgExpired
         ELSE MsgWrong
    ELSE IF IsExpiredError(reply.val) THEN MsgExpired ELSE MsgVerifyFailed

\* SchedulesCallback with the setTimeout moved out of the success branch
SchedulesCallback_Always(outcome) == TRUE

\* the success branch ends with setTimeout(() => { setIsModalOpen(false);
\* onVerificationSuccess(); }, 2000)
SchedulesCallback(outcome) == outcome = "success"

\* VerifySettles without the finally block: isVerifying stays as it was
VerifySettles_NoFinally(i, reply) ==
    /\ i \in DOMAIN verifyCalls
    /\ reply = Resolved("1000") => timeouts + successCalls < MaxSuccess
    /\ LET outcome == Outcome(reply)
       IN  /\ isVerified' = IF outcome = "success" THEN TRUE ELSE isVerified
           /\ isOtpExpired' = IF outcome = "expired" THEN TRUE ELSE isOtpExpired
           /\ ShowModal(outcome # "success", OutcomeMessage(reply))
           /\ timeouts' = IF SchedulesCallback(outcome) THEN timeouts + 1
                                                        ELSE timeouts
    /\ verifyCalls' = RemoveAt(verifyCalls, i)
    /\ UNCHANGED otherComponents
    /\ UNCHANGED <<otp, timer, disabledResend, isVerifying, isResending,
                   referenceId, focus, sendCalls, successCalls>>

\* Call i settles with reply, and handleVerify runs on from
\* "await verifyOTP(...)": try, catch and finally.  At most limit success
\* timeouts are scheduled in one run.
VerifySettlesUpTo(limit, i, reply) ==
    /\ i \in DOMAIN verifyCalls
    /\ reply = Resolved("1000") => timeouts + successCalls < limit
    /\ LET outcome == Outcome(reply)
       IN  /\ isVerified' = IF outcome = "success" THEN TRUE ELSE isVerified
           /\ isOtpExpired' = IF outcome = "expired" THEN TRUE ELSE isOtpExpired
           /\ ShowModal(outcome # "success", OutcomeMessage(reply))
           /\ timeouts' = IF SchedulesCallback(outcome) THEN timeouts + 1
                                                        ELSE timeouts
    /\ isVerifying' = FALSE
    /\ verifyCalls' = RemoveAt(verifyCalls, i)
    /\ UNCHANGED otherComponents
    /\ UNCHANGED <<otp, timer, disabledResend, isResending, referenceId, focus,
                   sendCalls, successCalls>>

VerifySettles(i, reply) == VerifySettlesUpTo(MaxSuccess, i, reply)

\* the callback of setTimeout(..., 2000) on the success path
SuccessTimeout ==
    /\ timeouts > 0
    /\ timeouts' = timeouts - 1
    /\ isModalOpen' = FALSE
    /\ successCalls' = successCalls + 1
    /\ UNCHANGED otherComponents
    /\ UNCHANGED <<otp, timer, disabledResend, isVerified, isError,
                   modalMessage, isOtpExpired, isVerifying, isResending,
                   referenceId, focus, verifyCalls, sendCalls>>

\* the modal's Close button
CloseModal ==
    /\ isModalOpen
    /\ isModalOpen' = FALSE
    /\ UNCHANGED otherComponents
    /\ UNCHANGED <<otp, timer, disabledResend, isVerified, isError,
                   modalMessage, isOtpExpired, isVerifying, isResending,
                   referenceId, focus, verifyCalls, sendCalls, timeouts,
                   successCalls>>

-----------------------------------------------------------------------------
(* Resend: handleResendOTP *)

\* the Resend button is rendered with disabled={disabledResend || isResending}
ResendButtonEnabled == ~(disabledResend \/ isResending)

\* handleResendOTP with setIsResending(true) left out
handleResendOTP_NoBusyFlag ==
    IF disabledResend \/ isResending THEN UNCHANGED vars
    ELSE /\ sendCalls' = Append(sendCalls, [op |-> "sendOTPInSignup"])
         /\ UNCHANGED otherComponents
         /\ UNCHANGED <<otp, timer, disabledResend, isVerified, isModalOpen,
                        isError, modalMessage, isOtpExpired, isVerifying,
                        isResending, referenceId, focus, verifyCalls, timeouts,
                        successCalls>>

\* handleResendOTP up to "await sendOTPInSignup(phone, countryCode)"
handleResendOTP ==
    IF disabledResend \/ isResending THEN UNCHANGED vars
    ELSE /\ isResending' = TRUE
         /\ sendCalls' = Append(sendCalls, [op |-> "sendOTPInSignup"])
         /\ UNCHANGED otherComponents
         /\ UNCHANGED <<otp, timer, disabledResend, isVerified, isModalOpen,
                        isError, modalMessage, isOtpExpired, isVerifying,
                        referenceId, focus, verifyCalls, timeouts,
                        successCalls>>

\* a click on the Resend button
ClickResend ==
    /\ ResendButtonEnabled
    /\ handleResendOTP

\* how a sendOTPInSignup call can settle: a response with a referenceId, a
\* response without one (""), or an Error
SendReplies ==
    {Resolved(ref) : ref \in Refs \cup {""}} \cup
    {Rejected(m) : m \in ErrorMessages}

\* "if (res.referenceId)"
ResendSucceeded(reply) == reply.kind = "resolved" /\ reply.val # ""

\* the message of the Error the catch block of handleResendOTP receives
ResendError(reply) ==
    IF reply.kind = "resolved" THEN MsgNoReference ELSE reply.val

\* ResendSuccess with setOtp(['', '', '', '', '']) left out
ResendSuccess_KeepsOtp(reply) ==
    /\ referenceId' = onResendOTP(reply.val)
    /\ timer' = TimerStart
    /\ disabledResend' = TRUE
    /\ isOtpExpired' = FALSE
    /\ otp' = otp
    /\ isVerified' = FALSE
    /\ ShowModal(FALSE, MsgResent)
    /\ focus' = IF isOtpExpired THEN focus ELSE {0}

\* the branch "if (res.referenceId) { ... }"
ResendSuccess(reply) ==
    /\ referenceId' = onResendOTP(reply.val)
    /\ timer' = TimerStart
    /\ disabledResend' = TRUE
    /\ isOtpExpired' = FALSE
    /\ otp' = EmptyOtp
    /\ isVerified' = FALSE
    /\ ShowModal(FALSE, MsgResent)
    \* inputsRef.current[0]?.focus(): the input is still rendered disabled
    \* when isOtpExpired is set
    /\ focus' = IF isOtpExpired THEN focus ELSE {0}

\* ResendFailure with the countdown restarted as on success
ResendFailure_RestartsTimer(reply) ==
    /\ ShowModal(TRUE, IF ResendError(reply) # ""
                       THEN ResendError(reply) ELSE MsgResendFailed)
    /\ timer' = TimerStart
    /\ disabledResend' = TRUE
    /\ UNCHANGED <<referenceId, isOtpExpired, otp, isVerified, focus>>

\* the catch block
ResendFailure(reply) ==
    /\ ShowModal(TRUE, IF ResendError(reply) # ""
                       THEN ResendError(reply) ELSE MsgResendFailed)
    /\ UNCHANGED <<referenceId, timer, disabledResend, isOtpExpired, otp,
                   isVerified, focus>>

\* Call i settles with reply, and handleResendOTP runs on from
\* "await sendOTPInSignup(...)": try, catch and finally.
ResendSettles(i, reply) ==
    /\ i \in DOMAIN sendCalls
    /\ IF ResendSucceeded(reply) THEN ResendSuccess(reply)
                                 ELSE ResendFailure(reply)
    /\ isResending' = FALSE
    /\ sendCalls' = RemoveAt(sendCalls, i)
    /\ UNCHANGED otherComponents
    /\ UNCHANGED <<isVerifying, verifyCalls, timeouts, successCalls>>

-----------------------------------------------------------------------------
Next ==
    \/ \E v \in TypedValues, idx \in Slots : handleChange(v, idx)
    \/ \E idx \in Slots : handleBackspace(idx)
    \/ \E idx \in Slots : handleDelete(idx)
    \/ \E text \in ClipboardTexts, idx \in Slots : handlePaste(text, idx)
    \/ Tick
    \/ ClickVerify
    \/ \E i \in 1 .. Len(verifyCalls), reply \in VerifyReplies :
            VerifySettles(i, reply)
    \/ SuccessTimeout
    \/ CloseModal
    \/ ClickResend
    \/ \E i \in 1 .. Len(sendCalls), reply \in SendReplies :
            ResendSettles(i, reply)

Spec == Init /\ [][Next]_vars

-----------------------------------------------------------------------------
(* The code buffer on its own: the editing handlers applied to every buffer *)
(* over three digits, with richer typed values and clipboard texts          *)

EditDigits == {"1", "2", "3"}

EditValues == {"", "x", "-"} \cup EditDigits

EditClipboardTexts ==
    { <<>>,
      <<"x", " ">>,
      <<"2">>,
      <<"3", "x", "1">>,
      <<"1", "-", "2", "-", "3">>,
      <<"2", "1", "3", "3">>,
      <<"3", "2", "1", "1", "2">>,
      <<"1", "2", " ", "3", "3", "2", "1", "1">> }

\* every buffer the user can type, in a freshly mounted widget
EditInit ==
    /\ otp \in [Slots -> {""} \cup EditDigits]
    /\ timer = TimerStart
    /\ disabledResend = TRUE
    /\ isVerified = FALSE
    /\ isModalOpen = FALSE
    /\ isError = FALSE
    /\ modalMessage = ""
    /\ isOtpExpired = FALSE
    /\ isVerifying = FALSE
    /\ isResending = FALSE
    /\ referenceId = "r1"
    /\ focus = {}
    /\ verifyCalls = <<>>
    /\ sendCalls = <<>>
    /\ timeouts = 0
    /\ successCalls = 0
    /\ slider = SliderInitial
    /\ signin = SigninMounted(NoCredentials)
    /\ profile = ProfileMounted("")

\* A key or paste that changes nothing is the same step whichever handler
\* ran; the key handlers come first here, the paste first in PasteNext.
EditNext ==
    \/ \E idx \in Slots : handleDelete(idx)
    \/ \E idx \in Slots : handleBackspace(idx)
    \/ \E v \in EditValues, idx \in Slots : handleChange(v, idx)
    \/ \E text \in EditClipboardTexts, idx \in Slots : handlePaste(text, idx)

SpecEdit == EditInit /\ [][EditNext]_vars

PasteNext ==
    \/ \E text \in EditClipboardTexts, idx \in Slots : handlePaste(text, idx)
    \/ \E v \in EditValues, idx \in Slots : handleChange(v, idx)
    \/ \E idx \in Slots : handleBackspace(idx)
    \/ \E idx \in Slots : handleDelete(idx)

SpecPaste == EditInit /\ [][PasteNext]_vars

\* A pending setTimeout callback runs: the browser's timer queue does not
\* starve it and nothing in the component clears it.
FairSpec == Spec /\ WF_vars(SuccessTimeout)

RepeatSettles(i, reply) == VerifySettlesUpTo(MaxRepeat, i, reply)

\* The verification on its own, submitted more than once: the code is pasted,
\* submitted, answered, the dialog closed, and the code submitted again.
RepeatNext ==
    \/ \E text \in ClipboardTexts : handlePaste(text, 0)
    \/ Tick
    \/ ClickVerify
    \/ \E i \in 1 .. Len(verifyCalls), reply \in VerifyReplies :
            RepeatSettles(i, reply)
    \/ SuccessTimeout
    \/ CloseModal

RepeatSpec == Init /\ [][RepeatNext]_vars

\* Every verifyOTP call in flight settles (the promise resolves or rejects),
\* and the interval the timer effect installs keeps ticking while timer > 0.
CompletingSpec ==
    /\ Spec
    /\ WF_vars(\E i \in 1 .. Len(verifyCalls), reply \in VerifyReplies :
                    VerifySettles(i, reply))
    /\ WF_vars(Tick)

-----------------------------------------------------------------------------
(* The package carousel: PackageSlider, src/src/components/home/            *)
(* PackageSlider.tsx                                                        *)

\* Most getPackageDetails calls in flight at once.
MaxDetailCalls == 2

\* ids of the packages in productData
PackageIds == {1, 2}

\* message of an Error getPackageDetails rejects with ("" : no message)
DetailErrorMessages == {"", "Network Error"}

\* messages PackageCard passes to onAddToCartSuccess / onAddToCartError
CartMessages == {"Package added to cart"}

\* how a getPackageDetails call can settle: a response with the packageItems
\* of the package asked for, or an Error
DetailReplies ==
    {Resolved("packageItems")} \cup {Rejected(m) : m \in DetailErrorMessages}

\* handlePackageClick up to "await getPackageDetails(packageId)"
handlePackageClick(packageId) ==
    IF slider.selectedPackageId = {packageId} THEN UNCHANGED vars
    ELSE /\ slider' = [slider EXCEPT
                          !.selectedPackageId = {packageId},
                          !.isLoadingDetails = TRUE,
                          !.errorDetails = "",
                          !.detailCalls =
                              Append(@, [packageId |-> packageId])]
         /\ UNCHANGED <<otpVars, signin, profile>>

\* A click on the card of a package.  While a popup is open, a mousedown on
\* another card is a mousedown outside the popup (desktop) or lands on the
\* overlay (mobile): handleClickOutside closes the popup before a card can
\* take the click.
ClickPackage(packageId) ==
    /\ slider.selectedPackageId \in {{}, {packageId}}
    /\ Len(slider.detailCalls) < MaxDetailCalls
    /\ handlePackageClick(packageId)

\* the three setters of handleClosePopup
ClosedPopup(sl) ==
    [sl EXCEPT !.selectedPackageId = {},
               !.packageDetails = {},
               !.errorDetails = ""]

\* handleClosePopup, run by the card's onClosePopup or by handleClickOutside,
\* whose listener is installed while selectedPackageId !== null
handleClosePopup ==
    /\ slider.selectedPackageId # {}
    /\ slider' = ClosedPopup(slider)
    /\ UNCHANGED <<otpVars, signin, profile>>

\* the open card reports an add-to-cart that succeeded
handlePackageAddToCartSuccess(message) ==
    /\ slider.selectedPackageId # {}
    /\ slider' = ClosedPopup([slider EXCEPT !.successMessage = message,
                                            !.showSuccess = TRUE])
    /\ UNCHANGED <<otpVars, signin, profile>>

\* the open card reports an add-to-cart that failed
handlePackageAddToCartError(message) ==
    /\ slider.selectedPackageId # {}
    /\ slider' = [slider EXCEPT !.errorMessage = message, !.showError = TRUE]
    /\ UNCHANGED <<otpVars, signin, profile>>

\* SuccessPopup's onClose (its Close control or its duration of 3000 ms)
CloseSuccessPopup ==
    /\ slider.showSuccess
    /\ slider' = [slider EXCEPT !.showSuccess = FALSE]
    /\ UNCHANGED <<otpVars, signin, profile>>

\* ErrorPopup's onClose
CloseErrorPopup ==
    /\ slider.showError
    /\ slider' = [slider EXCEPT !.showError = FALSE]
    /\ UNCHANGED <<otpVars, signin, profile>>

\* error.message || 'Failed to load package details'
DetailsError(reply) ==
    IF reply.val # "" THEN reply.val ELSE "Failed to load package details"

\* Call i settles with reply, and handlePackageClick runs on from
\* "await getPackageDetails(packageId)": try, catch and finally.
DetailsSettle(i, reply) ==
    /\ i \in DOMAIN slider.detailCalls
    /\ LET call == slider.detailCalls[i]
           handled ==
               IF reply.kind = "resolved"
               THEN [slider EXCEPT !.packageDetails = {call.packageId}]
               ELSE [slider EXCEPT !.errorDetails = DetailsError(reply),
                                   !.errorMessage = DetailsError(reply),
                                   !.showError = TRUE]
       IN  slider' = [handled EXCEPT
                         !.isLoadingDetails = FALSE,
                         !.detailCalls = RemoveAt(@, i)]
    /\ UNCHANGED <<otpVars, signin, profile>>

SliderNext ==
    \/ \E packageId \in PackageIds : ClickPackage(packageId)
    \/ handleClosePopup
    \/ \E message \in CartMessages : handlePackageAddToCartSuccess(message)
    \/ \E message \in CartMessages : handlePackageAddToCartError(message)
    \/ CloseSuccessPopup
    \/ CloseErrorPopup
    \/ \E i \in 1 .. Len(slider.detailCalls), reply \in DetailReplies :
            DetailsSettle(i, reply)

SliderSpec == Init /\ [][SliderNext]_vars

-----------------------------------------------------------------------------
(* The sign-in page: Page, src/src/app/signin/page.tsx lines 20-355         *)

\* what \s matches, among the characters the model types
IsSpace(c) == c = " "

\* String.prototype.trim
trim(cs) ==
    LET kept == {k \in 1 .. Len(cs) : ~IsSpace(cs[k])}
    IN  IF kept = {} THEN <<>>
        ELSE SubSeq(cs, CHOOSE k \in kept : \A j \in kept : k <= j,
                        CHOOSE k \in kept : \A j \in kept : k >= j)

\* EmailPattern that asks for an "@" between two non-empty parts only
EmailPattern_NoDot(cs) ==
    \E at \in 1 .. Len(cs) :
        /\ cs[at] = "@"
        /\ 1 < at /\ at < Len(cs)
        /\ \A k \in 1 .. Len(cs) :
              k # at => (~IsSpace(cs[k]) /\ cs[k] # "@")

\* /^[^\s@]+@[^\s@]+\.[^\s@]+$/.test(cs): an "@" and, after it, a "." with a
\* character on each side of each, every other character being neither
\* white space nor "@"
EmailPattern(cs) ==
    \E at \in 1 .. Len(cs), dot \in 1 .. Len(cs) :
        /\ cs[at] = "@"
        /\ cs[dot] = "."
        /\ 1 < at /\ at + 1 < dot /\ dot < Len(cs)
        /\ \A k \in 1 .. Len(cs) :
              k # at => (~IsSpace(cs[k]) /\ cs[k] # "@")

\* texts typed into the email input
EmailInputs ==
    { <<" ">>,
      <<"a", "@", "b", ".", "c">>,
      <<" ", "a", "@", "b", ".", "c", " ">>,
      <<"a", "@", "b">>,
      <<"a", " ", "@", "b", ".", "c">>,
      <<"a", "@", "b", ".">> }

\* texts typed into the password input
PasswordInputs == { <<" ">>, <<"p", "w">> }

\* what localStorage can hold when the page is mounted: nothing, or the
\* credentials an earlier login saved
StoredCredentials ==
    { NoCredentials,
      [rememberedEmail |-> {<<"a", "@", "b", ".", "c">>},
       rememberedPassword |-> {<<"p", "w">>}] }

UserTypes == {"Retail", "Wholesale"}

\* data.token of a login response: "" when the response carries none
Tokens == {"", "tok"}

\* message of an Error login rejects with
LoginErrorMessages ==
    {"Wrong password.", "User not found.", "Invalid buyer type.",
     "Network Error"}

\* how a login call can settle: a response { token, userData } or an Error
LoginReplies ==
    {Resolved([token |-> t, buyerType |-> b]) : t \in Tokens, b \in UserTypes}
    \cup {Rejected(m) : m \in LoginErrorMessages}

\* the email input's onChange
ChangeEmail(value) ==
    /\ signin' = [signin EXCEPT !.email = value, !.emailError = ""]
    /\ UNCHANGED <<otpVars, slider, profile>>

\* the password input's onChange
ChangePassword(value) ==
    /\ signin' = [signin EXCEPT !.password = value, !.passwordError = ""]
    /\ UNCHANGED <<otpVars, slider, profile>>

\* the "Remember me" checkbox's onChange
ChangeRememberMe ==
    /\ signin' = [signin EXCEPT !.rememberMe = ~@]
    /\ UNCHANGED <<otpVars, slider, profile>>

\* the buyer type buttons
setUserType(type) ==
    /\ signin' = [signin EXCEPT !.userType = type]
    /\ UNCHANGED <<otpVars, slider, profile>>

\* the email error handleLogin sets
EmailErrorOf(email) ==
    IF trim(email) = <<>> THEN "Email is required"
    ELSE IF ~EmailPattern(trim(email)) THEN "Enter a valid email address"
    ELSE ""

\* the password error handleLogin sets
PasswordErrorOf(password) ==
    IF trim(password) = <<>> THEN "Password is required" ELSE ""

\* handleLogin up to "await login({ email, password, buyerType: userType })".
\* The call keeps the values of the render it was made in: the rest of
\* handleLogin reads email, password and rememberMe from that closure.
handleLogin ==
    LET valid == /\ EmailErrorOf(signin.email) = ""
                 /\ PasswordErrorOf(signin.password) = ""
        checked == [signin EXCEPT
                       !.emailError = EmailErrorOf(signin.email),
                       !.passwordError = PasswordErrorOf(signin.password)]
    IN  /\ signin' =
              IF ~valid THEN checked
              ELSE [checked EXCEPT
                       !.isLoading = TRUE,
                       !.loginCalls =
                           Append(@, [email |-> signin.email,
                                      password |-> signin.password,
                                      buyerType |-> signin.userType,
                                      rememberMe |-> signin.rememberMe])]
        /\ UNCHANGED <<otpVars, slider, profile>>

\* The form is submitted: the "Log in" button is rendered with
\* disabled={isLoading}, and a form whose submit button is disabled is not
\* submitted by the Enter key either.
SubmitLogin ==
    /\ ~signin.isLoading
    /\ handleLogin

\* RememberedAfter that saves the credentials whatever the checkbox says
RememberedAfter_Always(call, stored) ==
    [rememberedEmail |-> {call.email}, rememberedPassword |-> {call.password}]

\* localStorage after "if (rememberMe) { setItem, setItem } else
\* { removeItem, removeItem }"
RememberedAfter(call, stored) ==
    IF call.rememberMe
    THEN [rememberedEmail |-> {call.email},
          rememberedPassword |-> {call.password}]
    ELSE [rememberedEmail |-> {}, rememberedPassword |-> {}]

\* the path handed to router.push for data.userData.buyerType
RouteOf(buyerType) ==
    IF buyerType = "Retail" THEN {"/"}
    ELSE IF buyerType = "Wholesale" THEN {"/wholesale/home"}
    ELSE {}

\* the try block after the await
LoginResolved(sg, call, data) ==
    LET shown == [sg EXCEPT !.showSuccessPopup = TRUE]
    IN  IF data.token # ""
        THEN [shown EXCEPT
                 !.credentials = @ \cup {data.token},
                 !.localStorage = RememberedAfter(call, @),
                 !.route = RouteOf(data.buyerType)]
        ELSE shown

\* the catch block
LoginRejected(sg, message) ==
    [sg EXCEPT
        !.showErrorPopup = TRUE,
        !.passwordError = IF message = "Wrong password."
                          THEN "Incorrect password. Please try again!"
                          ELSE "",
        !.emailError = ""]

\* Call i settles with reply, and handleLogin runs on from "await login(...)":
\* try, catch and finally.
LoginSettles(i, reply) ==
    /\ i \in DOMAIN signin.loginCalls
    /\ LET call == signin.loginCalls[i]
           handled == IF reply.kind = "resolved"
                      THEN LoginResolved(signin, call, reply.val)
                      ELSE LoginRejected(signin, reply.val)
       IN  signin' = [handled EXCEPT
                         !.isLoading = FALSE,
                         !.loginCalls = RemoveAt(@, i)]
    /\ UNCHANGED <<otpVars, slider, profile>>

\* SuccessPopup's onClose on the sign-in page
SigninCloseSuccessPopup ==
    /\ signin.showSuccessPopup
    /\ signin' = [signin EXCEPT !.showSuccessPopup = FALSE]
    /\ UNCHANGED <<otpVars, slider, profile>>

\* ErrorPopup's onClose on the sign-in page
SigninCloseErrorPopup ==
    /\ signin.showErrorPopup
    /\ signin' = [signin EXCEPT !.showErrorPopup = FALSE]
    /\ UNCHANGED <<otpVars, slider, profile>>

\* the page mounted in a browser that may hold saved credentials
SigninInit ==
    /\ OtpMounted
    /\ slider = SliderInitial
    /\ signin \in {SigninMounted(stored) : stored \in StoredCredentials}
    /\ profile = ProfileMounted("")

SigninNext ==
    \/ \E value \in EmailInputs : ChangeEmail(value)
    \/ \E value \in PasswordInputs : ChangePassword(value)
    \/ ChangeRememberMe
    \/ \E type \in UserTypes : setUserType(type)
    \/ SubmitLogin
    \/ \E i \in 1 .. Len(signin.loginCalls), reply \in LoginReplies :
            LoginSettles(i, reply)
    \/ SigninCloseSuccessPopup
    \/ SigninCloseErrorPopup

SigninSpec == SigninInit /\ [][SigninNext]_vars

-----------------------------------------------------------------------------
(* The personal-details form: PersonalDetailsForm, src/src/app/signin/      *)
(* page.tsx lines 878-1311                                                  *)

MsgNotAuthenticated == "You are not authenticated. Please login first."
MsgProfileUpdated   == "Profile updated successfully!"
MsgPasswordUpdated  == "Password updated successfully!"
MsgImageTooLarge    == "The image you uploaded is larger than 15MB."

\* state.auth.token: "" when nobody is signed in
AuthTokens == {"", "tok"}

\* texts typed into a password field ("" : the field is left or made empty)
PasswordTexts == {"", "Secret1!"}

\* files picked in the file input: none, one of at most 15MB, a larger one
PickedFiles == {"none", "small", "large"}

\* message of an Error a profile service call rejects with ("" : no message)
ProfileErrorMessages ==
    {"", "Email already exists", "Phone number already exists",
     "Network Error"}

\* message of an updatePassword response ("" : none)
PasswordResponseMessages == {"", "Password changed"}

\* how a call of service op can settle
ProfileReplies(op) ==
    (IF op = "updatePassword"
     THEN {Resolved(m) : m \in PasswordResponseMessages}
     ELSE {Resolved("")})
    \cup {Rejected(m) : m \in ProfileErrorMessages}

\* the schema's rules for the password fields (currentPassword and
\* confirmPassword are required, and confirmPassword must equal newPassword,
\* when newPassword is not empty): handleSubmit calls onSubmit only with data
\* the resolver accepts
SchemaAccepts(data) ==
    data.newPassword # "" =>
        /\ data.currentPassword # ""
        /\ data.confirmPassword # ""
        /\ data.confirmPassword = data.newPassword

\* a password input's onChange
ChangePasswordField(field, value) ==
    /\ profile' = [profile EXCEPT !.passwords[field] = value]
    /\ UNCHANGED <<otpVars, slider, signin>>

\* setErrorMessage(...); setShowErrorPopup(true); setShowSuccessPopup(false)
ShowProfileError(pf, message) ==
    [pf EXCEPT !.errorMessage = message,
               !.showErrorPopup = TRUE,
               !.showSuccessPopup = FALSE]

\* handleFileChange
handleFileChange(file) ==
    /\ profile' =
          IF file = "none" THEN profile
          ELSE IF file = "large" THEN ShowProfileError(profile, MsgImageTooLarge)
          ELSE [profile EXCEPT !.profilePic = {file}, !.previewURL = {"blob"}]
    /\ UNCHANGED <<otpVars, slider, signin>>

\* onSubmit without the test of the token
onSubmit_NoTokenTest(data) ==
    /\ profile' = [profile EXCEPT
                      !.showSuccessPopup = FALSE,
                      !.showErrorPopup = FALSE,
                      !.errorMessage = "",
                      !.successMessage = <<>>,
                      !.isLoading = TRUE,
                      !.calls = Append(@, ProfileCall("updateProfile", "onSubmit",
                                                      data, <<>>))]
    /\ UNCHANGED <<otpVars, slider, signin>>

\* onSubmit up to "await updateProfile(...)"
onSubmit(data) ==
    /\ profile' =
          IF profile.token = ""
          THEN [ShowProfileError(profile, MsgNotAuthenticated)
                   EXCEPT !.isLoading = FALSE]
          ELSE [profile EXCEPT
                   !.showSuccessPopup = FALSE,
                   !.showErrorPopup = FALSE,
                   !.errorMessage = "",
                   !.successMessage = <<>>,
                   !.isLoading = TRUE,
                   !.calls = Append(@, ProfileCall("updateProfile", "onSubmit",
                                                   data, <<>>))]
    /\ UNCHANGED <<otpVars, slider, signin>>

\* The form is submitted: the Save button is rendered with
\* disabled={isLoading}, and handleSubmit(onSubmit) runs onSubmit with the
\* form's values when the resolver accepts them.
SubmitProfile ==
    /\ ~profile.isLoading
    /\ SchemaAccepts(profile.passwords)
    /\ onSubmit(profile.passwords)

\* WantsPasswordUpdate that looks at the current password only
WantsPasswordUpdate_CurrentOnly(data) == data.currentPassword # ""

\* "if (data.newPassword && data.currentPassword && data.confirmPassword)"
WantsPasswordUpdate(data) ==
    /\ data.newPassword # ""
    /\ data.currentPassword # ""
    /\ data.confirmPassword # ""

\* the message the catch block of onSubmit shows for an Error
SubmitErrorMessage(op, message) ==
    LET thrown == IF op = "updatePassword" /\ message = ""
                  THEN "Failed to update password." ELSE message
    IN  IF thrown = "Email already exists"
        THEN "This email is already in use. Please use a different email."
        ELSE IF thrown = "Phone number already exists"
        THEN "This phone number is already in use. Please use a different phone number."
        ELSE IF thrown # "" THEN thrown ELSE "Something went wrong"

\* onSubmit from one await to the next (or to its end), for the call that
\* settled with reply; pf is the form with that call removed
SubmitContinues(pf, call, reply) ==
    IF reply.kind = "rejected"
    THEN \* catch and finally
         [ShowProfileError(pf, SubmitErrorMessage(call.op, reply.val))
             EXCEPT !.isLoading = FALSE]
    ELSE IF call.op = "updateProfile"
    THEN IF WantsPasswordUpdate(call.data)
         THEN [pf EXCEPT !.calls =
                  Append(@, ProfileCall("updatePassword", "onSubmit", call.data,
                                        <<MsgProfileUpdated>>))]
         ELSE [pf EXCEPT !.calls =
                  Append(@, ProfileCall("fetchProfile", "onSubmit", call.data,
                                        <<MsgProfileUpdated>>))]
    ELSE IF call.op = "updatePassword"
    THEN [pf EXCEPT !.calls =
             Append(@, ProfileCall("fetchProfile", "onSubmit", call.data,
                                   Append(call.successMessages,
                                          IF reply.val # "" THEN reply.val
                                          ELSE MsgPasswordUpdated)))]
    ELSE \* fetchProfile: reset(...), the popup, finally
         [pf EXCEPT !.passwords = NoPasswords,
                    !.previewURL = {"server"},
                    !.successMessage = call.successMessages,
                    !.showSuccessPopup = TRUE,
                    !.isLoading = FALSE]

\* loadProfile after "await fetchProfile({ token })": try, catch and finally
LoadContinues(pf, reply) ==
    IF reply.kind = "rejected"
    THEN [ShowProfileError(pf, IF reply.val # "" THEN reply.val
                               ELSE "Failed to fetch profile")
             EXCEPT !.isLoading = FALSE]
    ELSE [pf EXCEPT !.passwords = NoPasswords,
                    !.previewURL = {"server"},
                    !.isLoading = FALSE]

\* Call i settles with reply, and the function that awaits it runs on.
ProfileSettles(i, reply) ==
    /\ i \in DOMAIN profile.calls
    /\ reply \in ProfileReplies(profile.calls[i].op)
    /\ LET call == profile.calls[i]
           rest == [profile EXCEPT !.calls = RemoveAt(@, i)]
       IN  profile' = IF call.origin = "loadProfile"
                      THEN LoadContinues(rest, reply)
                      ELSE SubmitContinues(rest, call, reply)
    /\ UNCHANGED <<otpVars, slider, signin>>

\* handleCancel; the Cancel button is rendered with disabled={isLoading}
handleCancel ==
    /\ ~profile.isLoading
    /\ profile' = [profile EXCEPT
                      !.isLoading = TRUE,
                      !.passwords = NoPasswords,
                      !.profilePic = {},
                      !.previewURL = {},
                      !.cancelTimeouts = @ + 1]
    /\ UNCHANGED <<otpVars, slider, signin>>

\* the callback of handleCancel's setTimeout(..., 500)
CancelTimeout ==
    /\ profile.cancelTimeouts > 0
    /\ profile' = [profile EXCEPT
                      !.cancelTimeouts = @ - 1,
                      !.isLoading = FALSE,
                      !.showCancelSuccessPopup = TRUE]
    /\ UNCHANGED <<otpVars, slider, signin>>

\* setShowSuccessPopup(false): SuccessPopup's onClose (its duration is 3000)
\* or the setTimeout(..., 5000) of onSubmit
HideSuccessPopup ==
    /\ profile.showSuccessPopup
    /\ profile' = [profile EXCEPT !.showSuccessPopup = FALSE]
    /\ UNCHANGED <<otpVars, slider, signin>>

\* setShowErrorPopup(false): ErrorPopup's onClose
HideErrorPopup ==
    /\ profile.showErrorPopup
    /\ profile' = [profile EXCEPT !.showErrorPopup = FALSE]
    /\ UNCHANGED <<otpVars, slider, signin>>

\* setShowCancelSuccessPopup(false): CancelSuccessPopup's duration of 3000 or
\* the setTimeout(..., 3000) of handleCancel
HideCancelSuccessPopup ==
    /\ profile.showCancelSuccessPopup
    /\ profile' = [profile EXCEPT !.showCancelSuccessPopup = FALSE]
    /\ UNCHANGED <<otpVars, slider, signin>>

\* the form mounted with or without a signed-in user
ProfileInit ==
    /\ OtpMounted
    /\ slider = SliderInitial
    /\ signin = SigninMounted(NoCredentials)
    /\ profile \in {ProfileMounted(token) : token \in AuthTokens}

ProfileNext ==
    \/ \E field \in DOMAIN NoPasswords, value \in PasswordTexts :
            ChangePasswordField(field, value)
    \/ \E file \in PickedFiles : handleFileChange(file)
    \/ SubmitProfile
    \/ \E i \in 1 .. Len(profile.calls),
           reply \in UNION {ProfileReplies(op) :
                               op \in {"updateProfile", "updatePassword",
                                       "fetchProfile"}} :
            ProfileSettles(i, reply)
    \/ handleCancel
    \/ CancelTimeout
    \/ HideSuccessPopup
    \/ HideErrorPopup
    \/ HideCancelSuccessPopup

ProfileSpec == ProfileInit /\ [][ProfileNext]_vars

-----------------------------------------------------------------------------
(* Steps the properties speak about *)

\* this step issues a verifyOTP call
VerifyIssued == Len(verifyCalls') > Len(verifyCalls)

\* this step issues a sendOTPInSignup call
SendIssued == Len(sendCalls') > Len(sendCalls)

\* this step is the continuation of a verifyOTP call that settled
VerifySettled == Len(verifyCalls') < Len(verifyCalls)

\* this step is the continuation of a resend that succeeded
ResendSucceededStep ==
    \E i \in 1 .. Len(sendCalls), reply \in SendReplies :
        ResendSucceeded(reply) /\ ResendSettles(i, reply)

-----------------------------------------------------------------------------
(* Properties *)

\* C1: in every reachable state the code buffer has exactly 5 slots, and each
\* slot holds the empty string or exactly one decimal digit.
C1_BufferShape ==
    /\ DOMAIN otp = Slots
    /\ Cardinality(DOMAIN otp) = 5
    /\ \A i \in Slots : otp[i] = "" \/ otp[i] \in DecimalDigits

\* reached: a buffer edited into a gap (first slot empty, a later one filled)
\* in a session that began with a resend
C1_Witness ==
    /\ referenceId = "r2"
    /\ otp[0] = ""
    /\ \E i \in Slots : otp[i] # ""

\* C2: a submission issues a verifyOTP call only if all 5 slots are filled, the
\* session reference is non-empty and the expired state is not set; a click on
\* Verify in any other case issues no call.
C2_VerifyOnlyWhenReady ==
    [][ /\ VerifyIssued =>
            (isOtpComplete /\ referenceId # "" /\ ~isOtpExpired)
        /\ (ClickVerify /\ ~(isOtpComplete /\ referenceId # "" /\ ~isOtpExpired))
            => (verifyCalls' = verifyCalls /\ isVerifying' = isVerifying)
      ]_vars

\* reached: a call in flight that carries the full code and the session
\* reference
C2_Witness ==
    /\ Len(verifyCalls) = 1
    /\ Len(verifyCalls[1].code) = 5
    /\ verifyCalls[1].ref \in Refs

\* C3: at most one verifyOTP call is in flight; while one is pending the busy
\* flag is set and no submit attempt gets through.
C3_SingleVerifyInFlight ==
    /\ Len(verifyCalls) <= 1
    /\ Len(verifyCalls) = 1 => (isVerifying /\ ~ENABLED ClickVerify)

\* reached: a call pending while the buffer is complete and the session live,
\* so that only the busy flag holds a second submission back
C3_Witness ==
    /\ Len(verifyCalls) = 1
    /\ isVerifying
    /\ isOtpComplete
    /\ ~isOtpExpired
    /\ referenceId # ""

\* C4: when the countdown is at 0 the expired state is set; the countdown
\* leaves 0 only by a successful resend, no verifyOTP call is issued while the
\* expired state is set, and only a successful resend clears the expired state.
C4_ExpiredUntilResend ==
    /\ [](timer = 0 => isOtpExpired)
    /\ [][ /\ (timer = 0 /\ timer' # 0) => ResendSucceededStep
           /\ VerifyIssued => (~isOtpExpired /\ timer > 0)
           /\ (isOtpExpired /\ ~isOtpExpired') => ResendSucceededStep
         ]_vars

\* reached: the countdown has run out with a complete buffer and no resend yet
C4_Witness ==
    /\ timer = 0
    /\ isOtpExpired
    /\ isOtpComplete
    /\ sendCalls = <<>>

\* C5: a verification response with status '1002' or '1003' sets the expired
\* state, and while the expired state is set no verifyOTP call is issued, with
\* that session reference or any other; the state lasts until a resend succeeds.
C5_ServerExpiryInvalidates ==
    [][ /\ \A i \in 1 .. Len(verifyCalls), c \in {"1002", "1003"} :
              VerifySettles(i, Resolved(c)) => isOtpExpired'
        /\ isOtpExpired => ~VerifyIssued
        /\ (isOtpExpired /\ ~ResendSucceededStep) => isOtpExpired'
      ]_vars

\* reached: the expired state set by a response while the countdown still runs
\* and the session reference is still held
C5_Witness ==
    /\ isOtpExpired
    /\ timer > 0
    /\ referenceId # ""
    /\ modalMessage = MsgExpired
    /\ isOtpComplete

\* C6: no sendOTP call is issued while the countdown is above 0 or while
\* another resend is in flight; at most one resend call is in flight, and the
\* Resend button takes no click in either case.
C6_ResendLocked ==
    /\ [](Len(sendCalls) <= 1)
    /\ []((timer > 0 \/ Len(sendCalls) > 0) => ~ENABLED ClickResend)
    /\ [][SendIssued => (timer = 0 /\ sendCalls = <<>> /\ ~isResending)]_vars

\* reached: a resend call in flight after the countdown ran out
C6_Witness ==
    /\ Len(sendCalls) = 1
    /\ isResending
    /\ timer = 0

\* C7: when a resend call returns a session reference, the countdown is reset
\* to its start value, all 5 slots are cleared, the expired flag is cleared,
\* the resend action is locked again and the session reference becomes the one
\* returned.
C7_ResendSuccessResets ==
    [][ \A i \in 1 .. Len(sendCalls), ref \in Refs :
            ResendSettles(i, Resolved(ref)) =>
                /\ timer' = TimerStart
                /\ \A k \in Slots : otp'[k] = ""
                /\ ~isOtpExpired'
                /\ disabledResend'
                /\ referenceId' = ref
      ]_vars

\* reached: a fresh session after a resend that found digits in the buffer and
\* the expired flag set
C7_Witness ==
    /\ referenceId = "r2"
    /\ timer = TimerStart
    /\ modalMessage = MsgResent
    /\ otp = EmptyOtp
    /\ ~isOtpExpired

\* C8: when a resend call fails (it throws, or the response carries no session
\* reference) an error message is shown and the countdown, the resend lock, the
\* expired flag, the buffer and the session reference are left unchanged.
C8_ResendFailureKeepsState ==
    [][ \A i \in 1 .. Len(sendCalls),
           reply \in {Resolved("")} \cup {Rejected(m) : m \in ErrorMessages} :
            ResendSettles(i, reply) =>
                /\ isModalOpen' /\ isError'
                /\ modalMessage' \in {MsgNoReference, MsgResendFailed}
                                     \cup (ErrorMessages \ {""})
                /\ UNCHANGED <<timer, disabledResend, isOtpExpired, otp,
                               referenceId>>
      ]_vars

\* reached: the error of a response without reference shown, the resend
\* action still open
C8_Witness ==
    /\ isModalOpen
    /\ isError
    /\ modalMessage = MsgNoReference
    /\ timer = 0
    /\ ~disabledResend
    /\ sendCalls = <<>>

\* C9: the status code of a verification response selects exactly one
\* outcome: '1000' success, '1001' invalid code, '1002' or '1003' expired code,
\* any other value unknown failure; among them only the expired outcome sets
\* the expired state and only the success outcome sets the verified state.
C9_StatusSelectsOutcome ==
    [][ \A i \in 1 .. Len(verifyCalls), c \in StatusCodes :
            VerifySettles(i, Resolved(c)) =>
                /\ isModalOpen'
                /\ modalMessage' =
                      CASE c = "1000" -> MsgVerified
                        [] c = "1001" -> MsgInvalid
                        [] c \in {"1002", "1003"} -> MsgExpired
                        [] OTHER -> MsgWrong
                /\ isError' = (c # "1000")
                /\ isVerified' = (isVerified \/ c = "1000")
                /\ isOtpExpired' = (isOtpExpired \/ c \in {"1002", "1003"})
                /\ timeouts' = IF c = "1000" THEN timeouts + 1 ELSE timeouts
      ]_vars

\* reached: the unknown-failure outcome, with neither flag set
C9_Witness ==
    /\ isModalOpen
    /\ modalMessage = MsgWrong
    /\ ~isVerified
    /\ ~isOtpExpired

\* C10: onVerificationSuccess is invoked only by a timeout that a response
\* with the success status scheduled; once scheduled, the callback is
\* eventually invoked, in a step that also dismisses the dialog; no other
\* outcome schedules or invokes it.
C10_SuccessCallback ==
    /\ [][ /\ successCalls' # successCalls =>
                (timeouts > 0 /\ timeouts' = timeouts - 1
                 /\ successCalls' = successCalls + 1 /\ ~isModalOpen')
           /\ timeouts' > timeouts =>
                \E i \in 1 .. Len(verifyCalls) :
                    VerifySettles(i, Resolved("1000"))
         ]_vars
    /\ \A n \in 0 .. (MaxSuccess + 1) :
          (timeouts > 0 /\ successCalls = n)
              ~> (successCalls > n /\ ~isModalOpen)

\* reached: the callback made and the dialog closed, the verified state set
C10_Witness ==
    /\ successCalls = 1
    /\ isVerified
    /\ ~isModalOpen
    /\ modalMessage = MsgVerified

\* C11 as stated: a transport failure of the verification call is treated as
\* expired if the error text contains the substring "expired", and otherwise
\* as a generic failure that leaves the expired state unchanged.
C11_SubstringAsWritten ==
    [][ \A i \in 1 .. Len(verifyCalls), m \in VerifyErrorMessages :
            VerifySettles(i, Rejected(m)) =>
                IF includes(Chars(m), <<"e", "x", "p", "i", "r", "e", "d">>)
                THEN isOtpExpired' /\ modalMessage' = MsgExpired
                ELSE /\ isOtpExpired' = isOtpExpired
                     /\ modalMessage' = MsgVerifyFailed
      ]_vars

\* C11, amended: a transport failure of the verification call is treated as
\* expired (expired state set, expired message shown) if the error text
\* contains "expired" in any letter case, and otherwise as a generic failure
\* that leaves the expired state unchanged.
C11_ExpiredAnyCase ==
    [][ \A i \in 1 .. Len(verifyCalls), m \in VerifyErrorMessages :
            VerifySettles(i, Rejected(m)) =>
                /\ isModalOpen' /\ isError' /\ ~isVerifying'
                /\ IF m \in {"OTP Expired", "otp expired"}
                   THEN isOtpExpired' /\ modalMessage' = MsgExpired
                   ELSE /\ isOtpExpired' = isOtpExpired
                        /\ modalMessage' = MsgVerifyFailed
      ]_vars

\* reached: the generic failure shown after a rejected call, the session
\* still live
C11_Witness ==
    /\ isModalOpen
    /\ isError
    /\ modalMessage = MsgVerifyFailed
    /\ ~isOtpExpired
    /\ ~isVerifying
    /\ verifyCalls = <<>>

-----------------------------------------------------------------------------
(* Properties of the code buffer, checked under SpecPaste and SpecEdit *)

\* C12 as stated: a paste whose digits form a k-digit string, for every k with
\* 0 <= k <= 5, leaves slots [0,k) holding those digits in order and slots
\* [k,5) empty.
C12_PasteEveryLength ==
    [][ \A text \in EditClipboardTexts, idx \in Slots :
            handlePaste(text, idx) =>
                LET digits == PastedDigits(text)
                IN  \A s \in Slots :
                        otp'[s] = IF s < Len(digits) THEN digits[s + 1] ELSE ""
      ]_vars

\* C12, amended: a paste whose digits form a k-digit string with 1 <= k <= 5
\* leaves slots [0,k) holding those digits in order and slots [k,5) empty,
\* whatever the buffer held and whichever slot received the paste; a paste
\* without digits (k = 0) leaves the buffer unchanged.
C12_PasteFills ==
    [][ \A text \in EditClipboardTexts, idx \in Slots :
            handlePaste(text, idx) =>
                LET digits == PastedDigits(text)
                IN  /\ Len(digits) <= 5
                    /\ \A k \in 1 .. Len(digits) : IsDigit(digits[k])
                    /\ IF Len(digits) >= 1
                       THEN \A s \in Slots :
                               otp'[s] = IF s < Len(digits) THEN digits[s + 1]
                                                            ELSE ""
                       ELSE otp' = otp
      ]_vars

\* reached: the three digits of a pasted text in the first slots, in order,
\* the rest cleared, the focus on the first empty slot
C12_Witness ==
    /\ otp = [s \in Slots |-> IF s = 0 THEN "1" ELSE IF s = 1 THEN "2"
                              ELSE IF s = 2 THEN "3" ELSE ""]
    /\ focus = {3}

-----------------------------------------------------------------------------
(* Properties of the widget, continued *)

\* C13: pressing Verify while fewer than 5 slots are filled performs no
\* network call and shows the 'enter all digits' error message: in every state
\* with an incomplete buffer (no verification pending, session not expired)
\* the press is taken and ends with that message shown and no call issued.
C13_IncompletePressShowsMessage ==
    (~isOtpComplete /\ ~isVerifying /\ ~isOtpExpired) =>
        ENABLED (/\ ClickVerify
                 /\ isModalOpen'
                 /\ isError'
                 /\ modalMessage' = MsgEnterAll
                 /\ verifyCalls' = verifyCalls)

\* C14: once the expired state is reached, by the countdown or by a
\* server-reported expiry, the widget accepts Resend: in every state where the
\* expired flag is set and no resend call is pending, the resend action is
\* enabled.
C14_ExpiredAcceptsResend ==
    (isOtpExpired /\ ~isResending /\ sendCalls = <<>>) =>
        (~disabledResend /\ ENABLED ClickResend)

\* C15: the countdown is always an integer between 0 and its start value; a
\* tick decrements it by exactly 1 and only while it is above 0; it never
\* becomes negative; the only step that increases it is a successful resend,
\* which sets it to the start value.
C15_CountdownRange ==
    /\ [](timer \in 0 .. TimerStart)
    /\ [][ /\ Tick => (timer > 0 /\ timer' = timer - 1)
           /\ timer' < timer => timer' = timer - 1
           /\ timer' > timer => (ResendSucceededStep /\ timer' = TimerStart)
         ]_vars

\* reached: the countdown running again after it ran out and a resend
\* restarted it
C15_Witness ==
    /\ referenceId = "r2"
    /\ timer = TimerStart - 1
    /\ ~isOtpExpired

-----------------------------------------------------------------------------
(* Properties of the code buffer, continued (SpecEdit) *)

\* C16: typing a single digit d into slot i sets slot i to d, leaves every
\* other slot unchanged and moves the focus to slot i+1 when i is not the last
\* slot (the focus stays on the last slot otherwise); input that is neither
\* empty nor a single digit leaves the buffer unchanged.
C16_TypingStoresAndAdvances ==
    [][ \A v \in EditValues, idx \in Slots :
            handleChange(v, idx) =>
                IF v \in DecimalDigits
                THEN /\ otp'[idx] = v
                     /\ \A s \in Slots \ {idx} : otp'[s] = otp[s]
                     /\ focus' = IF idx = 4 THEN {4} ELSE {idx + 1}
                ELSE v # "" => otp' = otp
      ]_vars

\* reached: a digit typed into the last slot, the focus still there
C16_Witness ==
    /\ otp[4] = "3"
    /\ focus = {4}

\* Backspace is pressed on the empty slot idx with a digit to its right
EmptyWithTrailingDigits(idx) ==
    /\ otp[idx] = ""
    /\ \E j \in Slots : j > idx /\ otp[j] # ""

\* C17 as stated: Backspace on an empty slot i with a digit to its right
\* shifts the contents of the slots after i one position to the left (slots
\* before i unchanged, number and order of digits preserved), and the focus
\* ends on a slot that is empty after the shift.
C17_ShiftFocusesEmptySlot ==
    [][ \A idx \in Slots :
            (EmptyWithTrailingDigits(idx) /\ handleBackspace(idx)) =>
                /\ \A s \in Slots : s < idx => otp'[s] = otp[s]
                /\ \A s \in Slots : s >= idx =>
                       otp'[s] = IF s < 4 THEN otp[s + 1] ELSE ""
                /\ Code(otp') = Code(otp)
                /\ \E f \in focus' : otp'[f] = ""
      ]_vars

\* C17, amended: Backspace on an empty slot i with a digit to its right shifts
\* the contents of the slots after i one position to the left (slots before i
\* unchanged, number and order of digits preserved), and the focus stays on
\* slot i, which then holds what slot i+1 held.
C17_ShiftKeepsFocus ==
    [][ \A idx \in Slots :
            (EmptyWithTrailingDigits(idx) /\ handleBackspace(idx)) =>
                /\ \A s \in Slots : s < idx => otp'[s] = otp[s]
                /\ \A s \in Slots : s >= idx =>
                       otp'[s] = IF s < 4 THEN otp[s + 1] ELSE ""
                /\ Code(otp') = Code(otp)
                /\ focus' = {idx}
      ]_vars

\* reached: the digits 2 and 3 moved up to the focused first slot, nothing
\* behind them
C17_Witness ==
    /\ focus = {0}
    /\ otp = [s \in Slots |-> IF s = 0 THEN "2" ELSE IF s = 1 THEN "3" ELSE ""]

\* C18: Backspace on an empty slot i with no digit to its right clears slot
\* i-1 and moves the focus to slot i-1 when i > 0, leaving all other slots
\* unchanged; when i = 0 the buffer is unchanged and the focus stays on slot 0.
C18_BackspaceClearsPrevious ==
    [][ \A idx \in Slots :
            (/\ otp[idx] = ""
             /\ \A j \in Slots : j > idx => otp[j] = ""
             /\ handleBackspace(idx)) =>
                IF idx > 0
                THEN /\ otp'[idx - 1] = ""
                     /\ \A s \in Slots \ {idx - 1} : otp'[s] = otp[s]
                     /\ focus' = {idx - 1}
                ELSE otp' = otp /\ focus' = {0}
      ]_vars

\* reached: the focus moved back to slot 2, emptied, behind two digits
C18_Witness ==
    /\ focus = {2}
    /\ otp = [s \in Slots |-> IF s = 0 THEN "3" ELSE IF s = 1 THEN "1" ELSE ""]

\* the buffer o with the contents of the slots after idx moved one position
\* left into slot idx
ShiftedInto(o, idx) ==
    [s \in Slots |-> IF s < idx THEN o[s]
                     ELSE IF s < 4 THEN o[s + 1] ELSE ""]

\* C19 as stated: for every slot i and every buffer, Delete on slot i yields
\* the buffer with the contents of the slots after i shifted one position left
\* into slot i, slots before i unchanged, the focus remaining on slot i.
C19_DeleteAlwaysShifts ==
    [][ \A idx \in Slots :
            handleDelete(idx) =>
                (otp' = ShiftedInto(otp, idx) /\ focus' = {idx})
      ]_vars

\* C19, amended: Delete on a non-empty slot i yields the buffer with the
\* contents of the slots after i shifted one position left into slot i (slots
\* before i unchanged); Delete on an empty slot leaves the buffer unchanged,
\* also when digits follow; the focus remains on slot i in both cases.
C19_DeleteShiftsFilledSlot ==
    [][ \A idx \in Slots :
            handleDelete(idx) =>
                /\ otp' = IF otp[idx] # "" THEN ShiftedInto(otp, idx) ELSE otp
                /\ focus' = {idx}
      ]_vars

\* reached: a buffer with a digit behind an empty, focused slot, as Delete
\* leaves it
C19_Witness ==
    /\ focus = {1}
    /\ otp = [s \in Slots |-> IF s = 0 THEN "1" ELSE IF s = 2 THEN "3" ELSE ""]

-----------------------------------------------------------------------------
(* Properties of the widget, continued *)

\* C20: a verification response that arrives after the countdown has reached
\* zero is still applied: a success status arriving in the expired state sets
\* the verified state and schedules the success callback, the expired state
\* staying set, and the callback is then eventually invoked.
C20_StaleSuccessApplied ==
    /\ [][ \A i \in 1 .. Len(verifyCalls) :
              (timer = 0 /\ isOtpExpired /\ VerifySettles(i, Resolved("1000")))
                  => /\ isVerified'
                     /\ isOtpExpired'
                     /\ ~isError'
                     /\ modalMessage' = MsgVerified
                     /\ timeouts' = timeouts + 1
         ]_vars
    /\ \A n \in 0 .. MaxSuccess :
          (timer = 0 /\ isOtpExpired /\ isVerified /\ timeouts > 0
           /\ successCalls = n) ~> (successCalls > n)

\* reached: verified and called back although the countdown is at zero and
\* the expired state is set
C20_Witness ==
    /\ timer = 0
    /\ isOtpExpired
    /\ isVerified
    /\ successCalls = 1
    /\ timeouts = 0

\* C21: every verification submission whose remote call completes, with any
\* status code or with a transport failure, leaves the Submitting state: the
\* step that handles the reply clears the busy flag and leaves no call in
\* flight, so a pending submission is eventually over; after a rejected
\* outcome the code is kept, the error is shown, and a new submission is
\* possible: at once when the session is live (the Verify button is enabled for
\* a complete code), and through Resend when it is expired (the Resend button
\* is eventually unlocked or the expired state left).
C21_SubmissionEnds ==
    /\ [][ VerifySettled =>
              /\ ~isVerifying'
              /\ verifyCalls' = <<>>
              /\ \A i \in 1 .. Len(verifyCalls), reply \in VerifyReplies :
                    (VerifySettles(i, reply) /\ Outcome(reply) # "success") =>
                        /\ isModalOpen' /\ isError'
                        /\ otp' = otp
                        /\ isVerified' = isVerified
                        /\ (isOtpComplete' /\ ~isOtpExpired') =>
                              (VerifyButtonEnabled' /\ referenceId' # "")
         ]_vars
    /\ isVerifying ~> ~isVerifying
    /\ isOtpExpired ~> (~isOtpExpired \/ ResendButtonEnabled \/ isResending)

\* reached: an unknown-failure reply handled in a session that began with a
\* resend, the code still complete and the Verify button enabled again
C21_Witness ==
    /\ referenceId = "r2"
    /\ isModalOpen
    /\ isError
    /\ modalMessage = MsgWrong
    /\ ~isVerifying
    /\ verifyCalls = <<>>
    /\ isOtpComplete
    /\ VerifyButtonEnabled

\* C22: onVerificationSuccess is invoked at most once per widget instance (after
\* a verification has succeeded no further verifyOTP call is issued and no
\* second success callback is scheduled, so the count of invocations never
\* exceeds one).
C22_SuccessAtMostOnce == successCalls <= 1

\* C23: after a successful resend the expired flag stays clear until the new
\* countdown reaches zero or a verification submitted for the new session
\* reference reports expiry: a step that sets the expired flag while the
\* countdown is above zero handles the reply to a call that carries the
\* current session reference, never the reply to a call submitted before the
\* resend.
C23_StaleReplyKeepsSession ==
    [][ (~isOtpExpired /\ isOtpExpired' /\ timer' > 0) =>
            \E i \in 1 .. Len(verifyCalls) :
                /\ verifyCalls[i].ref = referenceId
                /\ verifyCalls' = RemoveAt(verifyCalls, i)
      ]_vars

-----------------------------------------------------------------------------
(* Properties of the package carousel, checked under SliderSpec *)

\* C24: in every reachable state of the package slider, package details that
\* are not null are the ones fetched for the currently selected package: while
\* a package is selected, the details handed to its card are null or the ones
\* fetched for it, never the response for a package that is no longer selected.
C24_DetailsOfSelected ==
    (slider.selectedPackageId # {} /\ slider.packageDetails # {}) =>
        slider.packageDetails = slider.selectedPackageId

-----------------------------------------------------------------------------
(* Properties of the sign-in page, checked under SigninSpec *)

\* this step is the continuation of a login call that settled
LoginSettled == Len(signin'.loginCalls) < Len(signin.loginCalls)

\* C27: after a login that succeeds with a token, localStorage holds the
\* submitted email and password under rememberedEmail and rememberedPassword
\* if "Remember me" was checked when the form was submitted, and holds neither
\* key otherwise; the two keys are always set and removed together; a login
\* that is rejected, that answers without a token or that fails validation
\* never changes them, nor does any other step.
C27_RememberedCredentials ==
    /\ []((signin.localStorage.rememberedEmail = {})
            <=> (signin.localStorage.rememberedPassword = {}))
    /\ [][ IF LoginSettled
           THEN \A i \in 1 .. Len(signin.loginCalls), reply \in LoginReplies :
                    LoginSettles(i, reply) =>
                        LET call == signin.loginCalls[i]
                        IN  signin'.localStorage =
                              IF reply.kind = "rejected" \/ reply.val.token = ""
                              THEN signin.localStorage
                              ELSE IF call.rememberMe
                              THEN [rememberedEmail |-> {call.email},
                                    rememberedPassword |-> {call.password}]
                              ELSE NoCredentials
           ELSE signin'.localStorage = signin.localStorage
         ]_vars

\* reached: a login with "Remember me" checked has succeeded with a token, and
\* the email is stored as it was typed, with its surrounding blanks
C27_Witness ==
    /\ signin.credentials = {"tok"}
    /\ signin.localStorage =
          [rememberedEmail |-> {<<" ", "a", "@", "b", ".", "c", " ">>},
           rememberedPassword |-> {<<"p", "w">>}]
    /\ signin.loginCalls = <<>>
    /\ ~signin.isLoading

\* emails of the model that are blank once trimmed
BlankEmails == { <<>>, <<" ">> }

\* emails of the model that have the form local@domain.tld once trimmed
WellFormedEmails ==
    { <<"a", "@", "b", ".", "c">>,
      <<" ", "a", "@", "b", ".", "c", " ">> }

\* passwords of the model that are blank once trimmed
BlankPasswords == { <<>>, <<" ">> }

\* C28: the sign-in form calls the login service only when the trimmed email
\* is non-empty and has the form local@domain.tld and the trimmed password is
\* non-empty, and then with the email, password and buyer type of the form;
\* otherwise it sets the error of each field that is at fault, makes no call
\* and leaves the loading flag and the stored credentials unchanged.
C28_LoginOnlyWhenValid ==
    [][ /\ Len(signin'.loginCalls) > Len(signin.loginCalls) =>
              /\ signin.email \in WellFormedEmails
              /\ signin.password \notin BlankPasswords
        /\ SubmitLogin =>
              /\ signin'.emailError =
                    IF signin.email \in BlankEmails THEN "Email is required"
                    ELSE IF signin.email \notin WellFormedEmails
                    THEN "Enter a valid email address"
                    ELSE ""
              /\ signin'.passwordError =
                    IF signin.password \in BlankPasswords
                    THEN "Password is required" ELSE ""
              /\ signin'.localStorage = signin.localStorage
              /\ IF /\ signin.email \in WellFormedEmails
                    /\ signin.password \notin BlankPasswords
                 THEN /\ signin'.isLoading
                      /\ signin'.loginCalls =
                            <<[email |-> signin.email,
                               password |-> signin.password,
                               buyerType |-> signin.userType,
                               rememberMe |-> signin.rememberMe]>>
                 ELSE /\ signin'.loginCalls = signin.loginCalls
                      /\ signin'.isLoading = signin.isLoading
      ]_vars

\* reached: a submission turned down for an email without a top-level part,
\* the password accepted, nothing in flight
C28_Witness ==
    /\ signin.email = <<"a", "@", "b">>
    /\ signin.password = <<"p", "w">>
    /\ signin.emailError = "Enter a valid email address"
    /\ signin.passwordError = ""
    /\ ~signin.isLoading
    /\ signin.loginCalls = <<>>

\* C29: the "Signed in!" success popup is shown only for a login whose
\* response carries a token, that is only when credentials are dispatched to
\* the store: a step that shows the popup handles a response with a token, and
\* a response without a token leaves the popup as it was.
C29_PopupOnlyWithToken ==
    [][ (~signin.showSuccessPopup /\ signin'.showSuccessPopup) =>
            \E i \in 1 .. Len(signin.loginCalls), reply \in LoginReplies :
                /\ reply.kind = "resolved"
                /\ reply.val.token # ""
                /\ LoginSettles(i, reply)
      ]_vars

-----------------------------------------------------------------------------
(* Properties of the personal-details form, checked under ProfileSpec *)

\* C25: in the personal-details form the success popup and the error popup are
\* never visible at the same time, under any interleaving of profile load,
\* submit, file selection and popup timers.
C25_PopupsExclusive ==
    ~(profile.showSuccessPopup /\ profile.showErrorPopup)

\* the calls of service op in flight
CallsOf(pf, op) == {i \in 1 .. Len(pf.calls) : pf.calls[i].op = op}

\* C26: in a profile submission updatePassword is called only after
\* updateProfile of the same submission has succeeded, and only when current,
\* new and confirm password are all non-empty (and then it is called); when
\* updateProfile fails no updatePassword call, and no other call, is made;
\* when updatePassword fails the error popup is shown and the success popup
\* is not.
C26_PasswordAfterProfile ==
    [][ /\ (CallsOf(profile', "updatePassword") # {}
            /\ CallsOf(profile, "updatePassword") = {}) =>
              \E i \in CallsOf(profile, "updateProfile") :
                  /\ ProfileSettles(i, Resolved(""))
                  /\ profile.calls[i].data.currentPassword # ""
                  /\ profile.calls[i].data.newPassword # ""
                  /\ profile.calls[i].data.confirmPassword # ""
                  /\ \A j \in CallsOf(profile', "updatePassword") :
                        profile'.calls[j].data = profile.calls[i].data
        /\ \A i \in CallsOf(profile, "updateProfile") :
              /\ \A m \in ProfileErrorMessages :
                    ProfileSettles(i, Rejected(m)) =>
                        /\ profile'.calls = <<>>
                        /\ profile'.showErrorPopup
                        /\ ~profile'.showSuccessPopup
              /\ ProfileSettles(i, Resolved("")) =>
                    (CallsOf(profile', "updatePassword") # {}
                     <=> \A f \in DOMAIN NoPasswords :
                            profile.calls[i].data[f] # "")
        /\ \A i \in CallsOf(profile, "updatePassword"),
              m \in ProfileErrorMessages :
                ProfileSettles(i, Rejected(m)) =>
                    /\ profile'.showErrorPopup
                    /\ ~profile'.showSuccessPopup
                    /\ profile'.calls = <<>>
                    /\ ~profile'.isLoading
      ]_vars

\* reached: updatePassword in flight for a submission with all three
\* passwords, after its updateProfile succeeded
C26_Witness ==
    /\ Len(profile.calls) = 1
    /\ profile.calls[1].op = "updatePassword"
    /\ profile.calls[1].data.newPassword = "Secret1!"
    /\ profile.calls[1].successMessages = <<MsgProfileUpdated>>
    /\ profile.isLoading

\* C30: submitting the personal-details form without an auth token makes no
\* updateProfile, updatePassword or fetchProfile call, shows the
\* not-authenticated error popup with the success popup hidden, and ends with
\* the loading flag cleared; the initial profile load makes no fetchProfile
\* call without a token either, so that without a token no call is ever in
\* flight.
C30_NoTokenNoCalls ==
    /\ [](profile.token = "" => profile.calls = <<>>)
    /\ [][ (profile.token = "" /\ SubmitProfile) =>
              /\ profile'.calls = <<>>
              /\ profile'.showErrorPopup
              /\ profile'.errorMessage = MsgNotAuthenticated
              /\ ~profile'.showSuccessPopup
              /\ ~profile'.isLoading
         ]_vars

\* reached: the not-authenticated error shown after a submission without a
\* token, with passwords typed in the form
C30_Witness ==
    /\ profile.token = ""
    /\ profile.showErrorPopup
    /\ profile.errorMessage = MsgNotAuthenticated
    /\ profile.passwords.newPassword = "Secret1!"
    /\ ~profile.isLoading
    /\ profile.calls = <<>>

====
